---- MODULE Spec2Model ----
(***************************************************************************)
(* The NDEF record codec of micropython-ndeflib: the type-string codec,    *)
(* the record header codec, the text and URI payload codecs and the type   *)
(* registry.                                                               *)
(*                                                                         *)
(* A Python str is a sequence of code points, a bytes object a sequence of *)
(* octets 0..255.  A call that can raise returns a record whose field err  *)
(* names the exception class ("" when the call returns normally).          *)
(***************************************************************************)
EXTENDS Integers, Sequences, FiniteSets, TLC

VARIABLES
    rec,          \* the record object under construction / last constructed
    stream,       \* the octets held by the byte stream
    pos,          \* the read position of the stream
    sent,         \* one entry per Record._encode call that wrote to the stream
    got,          \* one entry per Record._decode call on the stream
    err,          \* the exception of the last operation, "" when it returned
    value,        \* the argument handed to Record._encode_type
    tnf_type,     \* the result of Record._encode_type
    type_str,     \* the result of Record._decode_type
    known_types,  \* per class, the class's own _known_types attribute
    struct_fmt,     \* the format handed to _encode_struct and _decode_struct
    struct_values,  \* the values handed to Record._encode_struct
    struct_octets,  \* the result of Record._encode_struct
    struct_fields   \* the result of Record._decode_struct on these octets

structvars == <<struct_fmt, struct_values, struct_octets, struct_fields>>
vars == <<rec, stream, pos, sent, got, err, value, tnf_type, type_str, known_types,
          structvars>>

----------------------------------------------------------------------------
(* Sequences *)

Fill(c, n) == SubSeq([i \in 1..n |-> c], 1, n)
Drop(s, n) == SubSeq(s, n + 1, Len(s))
Take(s, n) == SubSeq(s, 1, n)
StartsWith(s, p) == Len(p) <= Len(s) /\ SubSeq(s, 1, Len(p)) = p
Min(a, b) == IF a < b THEN a ELSE b

\* the concatenation of ss[lo], ..., ss[hi]
RECURSIVE CatRange(_, _, _)
CatRange(ss, lo, hi) ==
    IF lo > hi THEN <<>>
    ELSE IF lo = hi THEN ss[lo]
    ELSE LET mid == (lo + hi) \div 2 IN
         CatRange(ss, lo, mid) \o CatRange(ss, mid + 1, hi)

Cat(ss) == CatRange(ss, 1, Len(ss))

----------------------------------------------------------------------------
(* Python values handed to setters and constructors: None, a str, a bytes  *)
(* object, or something else (an int).                                      *)

None == [kind |-> "None", v |-> <<>>]
Str(s) == [kind |-> "str", v |-> s]
Bytes(b) == [kind |-> "bytes", v |-> b]
Other == [kind |-> "int", v |-> <<>>]

Ok(v) == [err |-> "", val |-> v]
Raise(e) == [err |-> e, val |-> <<>>]

----------------------------------------------------------------------------
(* Text codecs, as CPython computes them.                                   *)

IsSurrogate(c) == c >= 55296 /\ c <= 57343

\* str.encode('ascii') / bytes.decode('ascii')
IsAscii(s) == \A i \in 1..Len(s) : s[i] < 128
EncodeAscii(s) == IF IsAscii(s) THEN Ok(s) ELSE Raise("UnicodeEncodeError")
DecodeAscii(b) == IF IsAscii(b) THEN Ok(b) ELSE Raise("UnicodeDecodeError")

\* str.encode('latin') / bytes.decode('latin')
EncodeLatin(s) ==
    IF \A i \in 1..Len(s) : s[i] < 256 THEN Ok(s) ELSE Raise("UnicodeEncodeError")
DecodeLatin(b) == b

UTF8Char(c) ==
    IF c < 128 THEN <<c>>
    ELSE IF c < 2048 THEN <<192 + (c \div 64), 128 + (c % 64)>>
    ELSE IF c < 65536
         THEN <<224 + (c \div 4096), 128 + ((c \div 64) % 64), 128 + (c % 64)>>
    ELSE <<240 + (c \div 262144), 128 + ((c \div 4096) % 64),
           128 + ((c \div 64) % 64), 128 + (c % 64)>>

\* str.encode('UTF-8')
EncodeUTF8(s) ==
    IF \E i \in 1..Len(s) : IsSurrogate(s[i]) THEN Raise("UnicodeEncodeError")
    ELSE Ok(Cat([i \in 1..Len(s) |-> UTF8Char(s[i])]))

UTF8Width(b1) ==
    IF b1 < 128 THEN 1
    ELSE IF b1 >= 194 /\ b1 <= 223 THEN 2
    ELSE IF b1 >= 224 /\ b1 <= 239 THEN 3
    ELSE IF b1 >= 240 /\ b1 <= 244 THEN 4
    ELSE 0

UTF8Point(b, n) ==
    IF n = 1 THEN b[1]
    ELSE IF n = 2 THEN (b[1] - 192) * 64 + (b[2] - 128)
    ELSE IF n = 3 THEN (b[1] - 224) * 4096 + (b[2] - 128) * 64 + (b[3] - 128)
    ELSE (b[1] - 240) * 262144 + (b[2] - 128) * 4096 + (b[3] - 128) * 64 + (b[4] - 128)

\* a continuation octet, 10xxxxxx
IsCont(x) == x >= 128 /\ x <= 191

\* the character that starts at octet i of b is well-formed and is followed
\* by the start of another character or by the end of b
UTF8Valid(b, i) ==
    LET n == UTF8Width(b[i])
        c == UTF8Point(SubSeq(b, i, i + n - 1), n)
    IN /\ n # 0
       /\ i + n - 1 <= Len(b)
       /\ \A j \in (i + 1)..(i + n - 1) : IsCont(b[j])
       /\ i + n <= Len(b) => ~IsCont(b[i + n])
       /\ n = 3 => ~(c < 2048 \/ IsSurrogate(c))
       /\ n = 4 => ~(c < 65536 \/ c > 1114111)

\* bytes.decode('UTF-8'), errors='strict': the decoder goes from character
\* to character; a character starts at every octet that is no continuation
\* octet, and at the first octet
DecodeUTF8(b) ==
    LET starts == SelectSeq([i \in 1..Len(b) |-> i],
                            LAMBDA i : i = 1 \/ ~IsCont(b[i]))
    IN IF \E k \in 1..Len(starts) : ~UTF8Valid(b, starts[k])
       THEN Raise("UnicodeDecodeError")
       ELSE Ok([k \in 1..Len(starts) |->
                   UTF8Point(SubSeq(b, starts[k], Len(b)), UTF8Width(b[starts[k]]))])

UTF16Char(c) ==
    IF c < 65536 THEN <<c % 256, c \div 256>>
    ELSE LET hi == 55296 + ((c - 65536) \div 1024)
             lo == 56320 + ((c - 65536) % 1024)
         IN <<hi % 256, hi \div 256, lo % 256, lo \div 256>>

\* str.encode('UTF-16'): a byte order mark, then little-endian code units
EncodeUTF16(s) ==
    IF \E i \in 1..Len(s) : IsSurrogate(s[i]) THEN Raise("UnicodeEncodeError")
    ELSE Ok(<<255, 254>> \o Cat([i \in 1..Len(s) |-> UTF16Char(s[i])]))

\* the code units of b, big is TRUE for big-endian
UTF16Units(b, big) ==
    IF Len(b) % 2 = 1 THEN Raise("UnicodeDecodeError")
    ELSE Ok([i \in 1..(Len(b) \div 2) |->
                IF big THEN b[2 * i - 1] * 256 + b[2 * i]
                ELSE b[2 * i] * 256 + b[2 * i - 1]])

IsHigh(x) == x >= 55296 /\ x <= 56319
IsLow(x) == x >= 56320 /\ x <= 57343

\* the code points of the code units u: a high surrogate takes the low
\* surrogate after it, and a low surrogate can not start a character
UTF16Points(u) ==
    LET starts == SelectSeq([k \in 1..Len(u) |-> k],
                            LAMBDA k : ~(IsLow(u[k]) /\ k > 1 /\ IsHigh(u[k - 1])))
    IN IF \E k \in 1..Len(u) :
             \/ IsHigh(u[k]) /\ (k = Len(u) \/ ~IsLow(u[k + 1]))
             \/ IsLow(u[k]) /\ (k = 1 \/ ~IsHigh(u[k - 1]))
       THEN Raise("UnicodeDecodeError")
       ELSE Ok([j \in 1..Len(starts) |->
                  LET k == starts[j] IN
                  IF IsHigh(u[k])
                  THEN 65536 + (u[k] - 55296) * 1024 + (u[k + 1] - 56320)
                  ELSE u[k]])

\* bytes.decode('UTF-16'), errors='strict'
DecodeUTF16(b) ==
    LET big == StartsWith(b, <<254, 255>>)
        body == IF big \/ StartsWith(b, <<255, 254>>) THEN Drop(b, 2) ELSE b
        units == UTF16Units(body, big)
    IN IF units.err # "" THEN units ELSE UTF16Points(units.val)

----------------------------------------------------------------------------
(* Record: the type-string codec (TNF and TYPE <-> canonical type string)   *)

WKT == <<117, 114, 110, 58, 110, 102, 99, 58, 119, 107, 116, 58>>  \* "urn:nfc:wkt:"
EXT == <<117, 114, 110, 58, 110, 102, 99, 58, 101, 120, 116, 58>>  \* "urn:nfc:ext:"
TUnknown == <<117, 110, 107, 110, 111, 119, 110>>                   \* "unknown"
TUnchanged == <<117, 110, 99, 104, 97, 110, 103, 101, 100>>         \* "unchanged"

IsAlnum(c) == (c >= 48 /\ c <= 57) \/ (c >= 65 /\ c <= 90) \/ (c >= 97 /\ c <= 122)

\* re.match(b'[a-zA-Z0-9-]+/[a-zA-Z0-9-+.]+', v): a match of a prefix of v
MediaMatch(v) ==
    \E i \in 1..Len(v) :
        /\ \A j \in 1..i : IsAlnum(v[j]) \/ v[j] = 45
        /\ i + 2 <= Len(v)
        /\ v[i + 1] = 47
        /\ IsAlnum(v[i + 2]) \/ v[i + 2] \in {45, 43, 46}

\* the prefix tuple of Record._decode_type
prefix == <<<<>>, WKT, <<>>, <<>>, EXT, TUnknown, TUnchanged>>

NoType == [err |-> "", TNF |-> 0, TYPE |-> <<>>]

_decode_type(TNF, TYPE) ==
    IF ~(0 <= TNF /\ TNF <= 6) THEN Raise("DecodeError")
    ELSE LET T == IF TNF \in {0, 5, 6} THEN <<>> ELSE TYPE
             d == DecodeAscii(T)
         IN IF d.err # "" THEN d ELSE Ok(prefix[TNF + 1] \o d.val)

\* a bug: the "urn:nfc:wkt:" prefix is cut one character short
_encode_type_classify_short(_value) ==
    IF _value = <<>> THEN [err |-> "", TNF |-> 0, TYPE |-> <<>>]
    ELSE IF StartsWith(_value, WKT) THEN [err |-> "", TNF |-> 1, TYPE |-> Drop(_value, 11)]
    ELSE IF MediaMatch(_value) THEN [err |-> "", TNF |-> 2, TYPE |-> _value]
    ELSE IF StartsWith(_value, EXT) THEN [err |-> "", TNF |-> 4, TYPE |-> Drop(_value, 12)]
    ELSE IF _value = TUnknown THEN [err |-> "", TNF |-> 5, TYPE |-> <<>>]
    ELSE IF _value = TUnchanged THEN [err |-> "", TNF |-> 6, TYPE |-> <<>>]
    ELSE [err |-> "ValueError", TNF |-> 0, TYPE |-> <<>>]

_encode_type_classify(_value) ==
    IF _value = <<>> THEN [err |-> "", TNF |-> 0, TYPE |-> <<>>]
    ELSE IF StartsWith(_value, WKT) THEN [err |-> "", TNF |-> 1, TYPE |-> Drop(_value, 12)]
    ELSE IF MediaMatch(_value) THEN [err |-> "", TNF |-> 2, TYPE |-> _value]
    ELSE IF StartsWith(_value, EXT) THEN [err |-> "", TNF |-> 4, TYPE |-> Drop(_value, 12)]
    ELSE IF _value = TUnknown THEN [err |-> "", TNF |-> 5, TYPE |-> <<>>]
    ELSE IF _value = TUnchanged THEN [err |-> "", TNF |-> 6, TYPE |-> <<>>]
    ELSE [err |-> "ValueError", TNF |-> 0, TYPE |-> <<>>]

_encode_type(v) ==
    LET b == IF v.kind = "None" THEN Ok(<<>>)
             ELSE IF v.kind = "bytes" THEN Ok(v.v)
             ELSE IF v.kind = "str" THEN EncodeAscii(v.v)
             ELSE Raise("ValueError")
    IN IF b.err # "" THEN [err |-> b.err, TNF |-> 0, TYPE |-> <<>>]
       ELSE LET r == _encode_type_classify(b.val) IN
            IF r.err = "" /\ Len(r.TYPE) > 255
            THEN [err |-> "ValueError", TNF |-> 0, TYPE |-> <<>>]
            ELSE r

----------------------------------------------------------------------------
(* Record objects.  cls is the Python class; type, name and data are the   *)
(* attributes of Record; text, lang and utfx those of TextRecord; uri that *)
(* of MicroUri.                                                            *)

MAX_PAYLOAD_SIZE == 1048576
MaxNameLen == 255

NoRec == [cls |-> "", type |-> <<>>, name |-> <<>>, data |-> <<>>,
          text |-> <<>>, lang |-> <<>>, utfx |-> "", uri |-> <<>>]

TextType == WKT \o <<84>>    \* TextRecord._type, "urn:nfc:wkt:T"
UriType == WKT \o <<85>>     \* MicroUri._type, "urn:nfc:wkt:U"

\* a bug: the limit is one octet too high
name_setter_off_by_one(v) ==
    LET conv == IF v.kind = "None" THEN Ok(<<>>)
                ELSE IF v.kind = "str"
                     THEN LET e == EncodeLatin(v.v) IN
                          IF e.err # "" THEN e ELSE Ok(DecodeLatin(e.val))
                ELSE IF v.kind = "bytes" THEN Ok(DecodeLatin(v.v))
                ELSE Raise("TypeError")
    IN IF conv.err # "" THEN conv
       ELSE IF Len(conv.val) > MaxNameLen + 1 THEN Raise("ValueError")
       ELSE conv

\* the name setter: the value stored in _name, or the exception
name_setter(v) ==
    LET conv == IF v.kind = "None" THEN Ok(<<>>)
                ELSE IF v.kind = "str"
                     THEN LET e == EncodeLatin(v.v) IN
                          IF e.err # "" THEN e ELSE Ok(DecodeLatin(e.val))
                ELSE IF v.kind = "bytes" THEN Ok(DecodeLatin(v.v))
                ELSE Raise("TypeError")
    IN IF conv.err # "" THEN conv
       ELSE IF Len(conv.val) > MaxNameLen THEN Raise("ValueError")
       ELSE conv

\* Record(type, name, data)
Record__init__(type, name, data) ==
    LET e == _encode_type(type) IN
    IF e.err # "" THEN Raise(e.err)
    ELSE LET t == _decode_type(e.TNF, e.TYPE) IN
         IF t.err # "" THEN Raise(t.err)
         ELSE LET n == name_setter(name) IN
              IF n.err # "" THEN Raise(n.err)
              ELSE Ok([NoRec EXCEPT !.cls = "Record", !.type = t.val,
                                    !.name = n.val, !.data = data])

_value_to_ascii(v) ==
    IF v.kind = "str"
    THEN LET e == EncodeAscii(v.v) IN IF e.err # "" THEN Raise("TypeError") ELSE e
    ELSE IF v.kind = "bytes"
    THEN LET d == DecodeAscii(v.v) IN IF d.err # "" THEN Raise("TypeError") ELSE d
    ELSE Raise("TypeError")

_value_to_unicode(v) ==
    IF v.kind = "str" THEN Ok(v.v)
    ELSE IF v.kind = "bytes"
    THEN LET d == DecodeAscii(v.v) IN IF d.err # "" THEN Raise("ValueError") ELSE d
    ELSE Raise("ValueError")

----------------------------------------------------------------------------
(* Bit operations on non-negative integers, and struct's fixed-width fields *)

\* a & b, bit by bit from the lowest
RECURSIVE BitAnd(_, _)
BitAnd(a, b) ==
    IF a = 0 \/ b = 0 THEN 0
    ELSE (a % 2) * (b % 2) + 2 * BitAnd(a \div 2, b \div 2)

\* a | b, bit by bit from the lowest
RECURSIVE BitOr(_, _)
BitOr(a, b) ==
    IF a = 0 THEN b
    ELSE IF b = 0 THEN a
    ELSE (IF a % 2 = 1 \/ b % 2 = 1 THEN 1 ELSE 0) + 2 * BitOr(a \div 2, b \div 2)

\* struct.pack('>B', x) and struct.pack('>L', x)
PackB(x) == <<x % 256>>
PackL(x) == <<(x \div 16777216) % 256, (x \div 65536) % 256, (x \div 256) % 256, x % 256>>
\* struct.unpack('>L', b).  TLC's integers end at 2^31 - 1: the values from
\* 2^31 on are all read as 2^31 - 1, which is above every length they are
\* compared with
UnpackL(b) ==
    IF b[1] >= 128 THEN 2147483647
    ELSE b[1] * 16777216 + b[2] * 65536 + b[3] * 256 + b[4]

\* Record._encode_struct('B', x): struct.error is caught by a clause naming
\* struct_error, which no module defines
_encode_struct_B(x) == IF x >= 0 /\ x <= 255 THEN Ok(PackB(x)) ELSE Raise("NameError")

\* Record._decode_struct('B', octets)
_decode_struct_B(octets) == IF Len(octets) < 1 THEN Raise("NameError") ELSE Ok(octets[1])

----------------------------------------------------------------------------
(* The struct engine: Record._encode_struct and Record._decode_struct       *)
(* A format is a sequence of one-character strings; a Python value is an    *)
(* int, a bytes object or a tuple of values.                                *)

\* A value is a record with one field, named after its Python type
IntV(n) == [int |-> n]
BytesV(b) == [bytes |-> b]
TupleV(t) == [tuple |-> t]
KindOf(x) == CHOOSE k \in DOMAIN x : TRUE
ValOf(x) == x[KindOf(x)]

DigitChars == <<"0", "1", "2", "3", "4", "5", "6", "7", "8", "9">>
isdigit(c) == \E d \in 1..10 : DigitChars[d] = c
DigitOf(c) == (CHOOSE d \in 1..10 : DigitChars[d] = c) - 1

\* str(n) and '{:d}'.format(n) for n >= 0
RECURSIVE FormatD(_)
FormatD(n) ==
    IF n < 10 THEN <<DigitChars[n + 1]>>
    ELSE FormatD(n \div 10) \o <<DigitChars[(n % 10) + 1]>>

\* int(s) for a run of digits
RECURSIVE ParseD(_)
ParseD(s) ==
    IF s = <<>> THEN 0 ELSE 10 * ParseD(Take(s, Len(s) - 1)) + DigitOf(s[Len(s)])

\* s.find(c) + 1: the position of the first c, 0 when there is none
find(s, c) ==
    IF \E i \in 1..Len(s) : s[i] = c
    THEN CHOOSE i \in 1..Len(s) : s[i] = c /\ \A j \in 1..(i - 1) : s[j] # c
    ELSE 0

\* s.rfind(c) + 1
rfind(s, c) ==
    IF \E i \in 1..Len(s) : s[i] = c
    THEN CHOOSE i \in 1..Len(s) : s[i] = c /\ \A j \in (i + 1)..Len(s) : s[j] # c
    ELSE 0

\* s.count(c)
count(s, c) == Cardinality({i \in 1..Len(s) : s[i] = c})

\* s.partition(c)
partition(s, c) ==
    IF find(s, c) = 0 THEN <<s, <<>>, <<>>>>
    ELSE <<Take(s, find(s, c) - 1), <<c>>, Drop(s, find(s, c))>>

\* n * s for a string s
Repeat(n, s) == [i \in 1..(n * Len(s)) |-> s[((i - 1) % Len(s)) + 1]]

\* The items of a struct format without its byte-order character: a count
\* before 's' is the length of one bytes item, a count before another code
\* repeats the item; a code that struct does not know is kept as it is and
\* makes every use of the format fail
RECURSIVE Items(_)
Items(f) ==
    IF f = <<>> THEN <<>>
    ELSE LET d == IF \E i \in 1..Len(f) : ~isdigit(f[i])
                  THEN (CHOOSE i \in 1..Len(f) :
                            ~isdigit(f[i]) /\ \A j \in 1..(i - 1) : isdigit(f[j])) - 1
                  ELSE Len(f)
             n == IF d = 0 THEN 1 ELSE ParseD(Take(f, d))
         IN  IF d = Len(f) THEN <<[c |-> "?", n |-> 1]>>
             ELSE IF f[d + 1] = "s" THEN <<[c |-> "s", n |-> n]>> \o Items(Drop(f, d + 1))
             ELSE [i \in 1..n |-> [c |-> f[d + 1], n |-> 1]] \o Items(Drop(f, d + 1))

ItemSize(it) == IF it.c = "s" THEN it.n ELSE IF it.c = "H" THEN 2 ELSE 1
ItemsValid(items) == \A i \in 1..Len(items) : items[i].c \in {"B", "H", "s"}

\* The offset of item i in the packed octets, standard sizes and no alignment
\* (the format carries '>' or '<')
RECURSIVE ItemOffset(_, _)
ItemOffset(items, i) ==
    IF i <= 1 THEN 0 ELSE ItemOffset(items, i - 1) + ItemSize(items[i - 1])

\* struct.calcsize(order + fmt)
calcsize(items) == ItemOffset(items, Len(items) + 1)

\* struct.calcsize(fmt) without a byte-order character: native alignment puts
\* an 'H' on an even offset
RECURSIVE NativeOffset(_, _)
NativeOffset(items, i) ==
    IF i <= 1 THEN 0
    ELSE LET end == NativeOffset(items, i - 1) + ItemSize(items[i - 1])
         IN  IF i <= Len(items) /\ items[i].c = "H" THEN end + (end % 2) ELSE end
calcsize_native(items) == NativeOffset(items, Len(items) + 1)

\* One value packed by one item
PackItem(order, it, x) ==
    IF it.c = "s" THEN [i \in 1..it.n |-> IF i <= Len(ValOf(x)) THEN ValOf(x)[i] ELSE 0]
    ELSE IF it.c = "B" THEN <<ValOf(x)>>
    ELSE IF order = ">" THEN <<ValOf(x) \div 256, ValOf(x) % 256>>
    ELSE <<ValOf(x) % 256, ValOf(x) \div 256>>

PackFits(it, x) ==
    \/ it.c = "s" /\ KindOf(x) = "bytes"
    \/ it.c = "B" /\ KindOf(x) = "int" /\ ValOf(x) >= 0 /\ ValOf(x) <= 255
    \/ it.c = "H" /\ KindOf(x) = "int" /\ ValOf(x) >= 0 /\ ValOf(x) <= 65535

RECURSIVE PackFrom(_, _, _, _)
PackFrom(order, items, xs, i) ==
    IF i > Len(items) THEN <<>>
    ELSE PackItem(order, items[i], xs[i]) \o PackFrom(order, items, xs, i + 1)

\* struct.pack(order + fmt, *xs)
pack(order, items, xs) ==
    IF /\ ItemsValid(items)
       /\ Len(xs) = Len(items)
       /\ \A i \in 1..Len(items) : PackFits(items[i], xs[i])
    THEN Ok(PackFrom(order, items, xs, 1))
    ELSE Raise("struct.error")

UnpackItem(order, it, b) ==
    IF it.c = "s" THEN BytesV(b)
    ELSE IF it.c = "B" THEN IntV(b[1])
    ELSE IF order = ">" THEN IntV(b[1] * 256 + b[2])
    ELSE IntV(b[2] * 256 + b[1])

\* struct.unpack_from(order + fmt, buf, offset)
unpack_from(order, items, buf, offset) ==
    IF ItemsValid(items) /\ Len(buf) - offset >= calcsize(items)
    THEN Ok([i \in 1..Len(items) |->
                UnpackItem(order, items[i],
                           SubSeq(buf, offset + ItemOffset(items, i) + 1,
                                  offset + ItemOffset(items, i) + ItemSize(items[i])))])
    ELSE Raise("struct.error")

\* The three assertions that open _encode_struct and _decode_struct
StructAsserts(f) ==
    /\ f[1] \notin {"@", "=", "!"}
    /\ count(f, "*") < 2
    /\ (find(f, "*") = 0 \/ find(f, "*") > rfind(f, "+"))

ByteOrder(f) == IF f[1] \in {">", "<"} THEN f[1] ELSE ">"
BareFormat(f) == IF f[1] \in {">", "<"} THEN Drop(f, 1) ELSE f

\* An exception inside the try block of either function
StructFailed == [this_fmt |-> <<>>, values |-> <<>>, octets |-> <<>>, offset |-> 0,
                 failed |-> TRUE]

\* len(x) is defined for bytes and tuples
HasLen(x) == KindOf(x) \in {"bytes", "tuple"}
\* list(x) of a tuple or of a bytes object
ListOf(x) ==
    IF KindOf(x) = "tuple" THEN ValOf(x)
    ELSE [i \in 1..Len(ValOf(x)) |-> IntV(ValOf(x)[i])]

\* The '*' branch of the encode loop: <<this_fmt, next_fmt>>, <<>> on an exception
EncodeWildcard(this_fmt, next_fmt, values) ==
    IF find(this_fmt, "*") = 0 THEN <<this_fmt, next_fmt>>
    ELSE LET a == Take(this_fmt, find(this_fmt, "*") - 1)
             b == Drop(this_fmt, find(this_fmt, "*"))
         IN  IF a # <<>> THEN <<a, <<"*">> \o b>>
             ELSE IF b # <<>> THEN <<Repeat(Len(values), b), <<>>>>
             ELSE IF values # <<>> /\ HasLen(values[1])
                  THEN <<FormatD(Len(ValOf(values[1]))) \o <<"s">>, <<>>>>
             ELSE <<>>

\* One turn of the while loop of _encode_struct
EncodeStep(order, st) ==
    LET p == partition(st.this_fmt, "+")
        w == EncodeWildcard(p[1], p[3], st.values)
        vcount == Len(w[1]) - Cardinality({i \in 1..Len(w[1]) : isdigit(w[1][i])})
        linked == vcount >= 1 /\ vcount <= Len(st.values) /\ HasLen(st.values[vcount])
        length == Len(ValOf(st.values[vcount]))
        inserted == Take(st.values, vcount - 1) \o <<IntV(length)>>
                        \o Drop(st.values, vcount - 1)
        group == w[2] # <<>> /\ w[2][1] = "("
        inner == Take(Drop(w[2], 1), find(Drop(w[2], 1), ")") - 1)
        after == Drop(Drop(w[2], 1), find(Drop(w[2], 1), ")"))
        \* <<this_fmt, next_fmt, values, vcount>> at the call of struct.pack
        c == IF p[2] = <<>> THEN <<w[1], w[2], st.values, vcount>>
             ELSE IF group
             THEN <<w[1] \o Repeat(length, inner), after,
                    Take(inserted, vcount) \o ListOf(inserted[vcount + 1])
                        \o Drop(inserted, vcount + 1),
                    vcount + length>>
             ELSE <<w[1] \o FormatD(length) \o <<"s">>, w[2], inserted, vcount + 1>>
        packed == pack(order, Items(c[1]), Take(c[3], Min(c[4], Len(c[3]))))
    IN  IF w = <<>> THEN StructFailed
        ELSE IF p[2] # <<>> /\ (w[1] = <<>> \/ ~linked) THEN StructFailed
        ELSE IF p[2] # <<>> /\ group /\ find(Drop(w[2], 1), ")") = 0 THEN StructFailed
        ELSE IF packed.err # "" THEN StructFailed
        ELSE [this_fmt |-> c[2], values |-> Drop(c[3], Min(c[4], Len(c[3]))),
              octets |-> st.octets \o packed.val, offset |-> 0, failed |-> FALSE]

RECURSIVE EncodeLoop(_, _)
EncodeLoop(order, st) ==
    IF st.failed \/ st.this_fmt = <<>> THEN st
    ELSE CHOOSE end \in {EncodeLoop(order, next) : next \in {EncodeStep(order, st)}} : TRUE

\* Record._encode_struct(fmt, *values).  The except clause names struct_error,
\* which no module defines: every exception of the try block becomes NameError
_encode_struct(f, xs) ==
    IF f = <<>> THEN Raise("IndexError")
    ELSE IF ~StructAsserts(f) THEN Raise("AssertionError")
    ELSE LET end == EncodeLoop(ByteOrder(f),
                               [this_fmt |-> BareFormat(f), values |-> xs, octets |-> <<>>,
                                offset |-> 0, failed |-> FALSE])
         IN  IF end.failed THEN Raise("NameError") ELSE Ok(end.octets)

\* The '*' branch of the decode loop: <<this_fmt, next_fmt>>, <<>> on an exception
DecodeWildcard(this_fmt, next_fmt, trailing) ==
    IF find(this_fmt, "*") = 0 THEN <<this_fmt, next_fmt>>
    ELSE LET a == Take(this_fmt, find(this_fmt, "*") - 1)
             b == Drop(this_fmt, find(this_fmt, "*"))
             size_fmt == calcsize_native(Items(b))
         IN  IF a # <<>> THEN <<a, <<"*">> \o b>>
             ELSE IF b # <<>>
             THEN IF ~ItemsValid(Items(b)) \/ size_fmt = 0 \/ trailing < 0 THEN <<>>
                  ELSE <<Repeat(trailing \div size_fmt, b),
                         IF trailing % size_fmt # 0 THEN <<"*">> ELSE <<>> >>
             ELSE IF trailing < 0 THEN <<>>
             ELSE <<FormatD(trailing) \o <<"s">>, <<>>>>

\* One turn of the while loop of _decode_struct
DecodeStep(order, buf, st) ==
    LET p == partition(st.this_fmt, "+")
        w == DecodeWildcard(p[1], p[3], Len(buf) - st.offset)
        first == unpack_from(order, Items(w[1]), buf, st.offset)
        values == st.values \o first.val
        offset == st.offset + calcsize(Items(w[1]))
        popped == values[Len(values)]
        rest == Take(values, Len(values) - 1)
        group == w[2] # <<>> /\ w[2][1] = "("
        inner == Take(Drop(w[2], 1), find(Drop(w[2], 1), ")") - 1)
        after == Drop(Drop(w[2], 1), find(Drop(w[2], 1), ")"))
        linked_fmt == IF group THEN Repeat(ValOf(popped), inner)
                      ELSE FormatD(ValOf(popped)) \o <<"s">>
        second == unpack_from(order, Items(linked_fmt), buf, offset)
    IN  IF w = <<>> THEN StructFailed
        ELSE IF first.err # "" THEN StructFailed
        ELSE IF p[2] = <<>>
        THEN [this_fmt |-> w[2], values |-> values, octets |-> <<>>, offset |-> offset,
              failed |-> FALSE]
        ELSE IF values = <<>> \/ KindOf(popped) # "int" THEN StructFailed
        ELSE IF group /\ find(Drop(w[2], 1), ")") = 0 THEN StructFailed
        ELSE IF second.err # "" THEN StructFailed
        ELSE [this_fmt |-> IF group THEN after ELSE w[2],
              values |-> IF group THEN rest \o <<TupleV(second.val)>>
                         ELSE rest \o second.val,
              octets |-> <<>>, offset |-> offset + calcsize(Items(linked_fmt)),
              failed |-> FALSE]

RECURSIVE DecodeLoop(_, _, _)
DecodeLoop(order, buf, st) ==
    IF st.failed \/ st.this_fmt = <<>> THEN st
    ELSE CHOOSE end \in {DecodeLoop(order, buf, next) :
                            next \in {DecodeStep(order, buf, st)}} : TRUE

\* Record._decode_struct(fmt, octets, offset, always_tuple=True); here too the
\* except clause names the undefined struct_error
_decode_struct(f, buf, offset) ==
    IF f = <<>> THEN Raise("IndexError")
    ELSE IF ~StructAsserts(f) THEN Raise("AssertionError")
    ELSE LET end == DecodeLoop(ByteOrder(f), buf,
                               [this_fmt |-> BareFormat(f), values |-> <<>>, octets |-> <<>>,
                                offset |-> offset, failed |-> FALSE])
         IN  IF end.failed THEN Raise("NameError") ELSE Ok(end.values)

----------------------------------------------------------------------------
(* TextRecord                                                               *)

EN == <<101, 110>>    \* the default language "en"

\* TextRecord(text, language, encoding); encoding "" stands for None
TextRecord__init__(text, language, encoding) ==
    LET t == _value_to_unicode(IF text.kind = "None" THEN Str(<<>>) ELSE text) IN
    IF t.err # "" THEN Raise(t.err)
    ELSE LET l == _value_to_ascii(IF language.kind = "None" THEN Str(EN) ELSE language) IN
         IF l.err # "" THEN Raise(l.err)
         ELSE IF ~(0 < Len(l.val) /\ Len(l.val) < 64) THEN Raise("ValueError")
         ELSE LET u == IF encoding = "" THEN "UTF-8" ELSE encoding IN
              IF u \notin {"UTF-8", "UTF-16"} THEN Raise("ValueError")
              ELSE Ok([NoRec EXCEPT !.cls = "TextRecord", !.type = TextType,
                                    !.text = t.val, !.lang = l.val, !.utfx = u])

TextRecord_encode_payload(r) ==
    LET UTFX == r.utfx
        LANG == EncodeAscii(r.lang)
        TEXT == IF UTFX = "UTF-16" THEN EncodeUTF16(r.text) ELSE EncodeUTF8(r.text)
    IN IF LANG.err # "" THEN LANG
       ELSE IF TEXT.err # "" THEN TEXT
       ELSE LET FLAG == _encode_struct_B(
                            BitOr(Len(LANG.val), IF UTFX = "UTF-16" THEN 128 ELSE 0))
            IN IF FLAG.err # "" THEN FLAG ELSE Ok(FLAG.val \o LANG.val \o TEXT.val)

\* cls._decode_error is an attribute no class defines: raising it is an
\* AttributeError
TextRecord_decode_payload(octets) ==
    LET F == _decode_struct_B(octets) IN
    IF F.err # "" THEN Raise(F.err)
    ELSE LET FLAG == F.val
             L == BitAnd(FLAG, 63)
         IN IF L = 0 THEN Raise("AttributeError")
            ELSE IF L >= Len(octets) THEN Raise("AttributeError")
            ELSE LET UTFX == IF FLAG \div 128 # 0 THEN "UTF-16" ELSE "UTF-8"
                     LANG == SubSeq(octets, 2, 1 + L)
                     body == Drop(octets, 1 + Len(LANG))
                     TEXT == IF UTFX = "UTF-16" THEN DecodeUTF16(body)
                             ELSE DecodeUTF8(body)
                 IN IF TEXT.err # "" THEN Raise("AttributeError")
                    ELSE TextRecord__init__(Str(TEXT.val), Bytes(LANG), UTFX)

----------------------------------------------------------------------------
(* MicroUri                                                                 *)

_prefix_strings == <<
    <<>>,
    <<104, 116, 116, 112, 58, 47, 47, 119, 119, 119, 46>>,        \* 1 "http://www."
    <<104, 116, 116, 112, 115, 58, 47, 47, 119, 119, 119, 46>>,   \* 2 "https://www."
    <<104, 116, 116, 112, 58, 47, 47>>,                           \* 3 "http://"
    <<104, 116, 116, 112, 115, 58, 47, 47>>,                      \* 4 "https://"
    <<116, 101, 108, 58>>,                                        \* 5 "tel:"
    <<109, 97, 105, 108, 116, 111, 58>>,                          \* 6 "mailto:"
    <<102, 116, 112, 58, 47, 47, 97, 110, 111, 110, 121, 109, 111, 117, 115, 58,
      97, 110, 111, 110, 121, 109, 111, 117, 115, 64>>,   \* 7 "ftp://anonymous:anonymous@"
    <<102, 116, 112, 58, 47, 47, 102, 116, 112, 46>>,             \* 8 "ftp://ftp."
    <<102, 116, 112, 115, 58, 47, 47>>,                           \* 9 "ftps://"
    <<115, 102, 116, 112, 58, 47, 47>>,                           \* 10 "sftp://"
    <<115, 109, 98, 58, 47, 47>>,                                 \* 11 "smb://"
    <<110, 102, 115, 58, 47, 47>>,                                \* 12 "nfs://"
    <<102, 116, 112, 58, 47, 47>>,                                \* 13 "ftp://"
    <<100, 97, 118, 58, 47, 47>>,                                 \* 14 "dav://"
    <<110, 101, 119, 115, 58>>,                                   \* 15 "news:"
    <<116, 101, 108, 110, 101, 116, 58, 47, 47>>,                 \* 16 "telnet://"
    <<105, 109, 97, 112, 58>>,                                    \* 17 "imap:"
    <<114, 116, 115, 112, 58, 47, 47>>,                           \* 18 "rtsp://"
    <<117, 114, 110, 58>>,                                        \* 19 "urn:"
    <<112, 111, 112, 58>>,                                        \* 20 "pop:"
    <<115, 105, 112, 58>>,                                        \* 21 "sip:"
    <<115, 105, 112, 115, 58>>,                                   \* 22 "sips:"
    <<116, 102, 116, 112, 58>>,                                   \* 23 "tftp:"
    <<98, 116, 115, 112, 112, 58, 47, 47>>,                       \* 24 "btspp://"
    <<98, 116, 108, 50, 99, 97, 112, 58, 47, 47>>,                \* 25 "btl2cap://"
    <<98, 116, 103, 111, 101, 112, 58, 47, 47>>,                  \* 26 "btgoep://"
    <<116, 99, 112, 111, 98, 101, 120, 58, 47, 47>>,              \* 27 "tcpobex://"
    <<105, 114, 100, 97, 111, 98, 101, 120, 58, 47, 47>>,         \* 28 "irdaobex://"
    <<102, 105, 108, 101, 58, 47, 47>>,                           \* 29 "file://"
    <<117, 114, 110, 58, 101, 112, 99, 58, 105, 100, 58>>,        \* 30 "urn:epc:id:"
    <<117, 114, 110, 58, 101, 112, 99, 58, 116, 97, 103, 58>>,    \* 31 "urn:epc:tag:"
    <<117, 114, 110, 58, 101, 112, 99, 58, 112, 97, 116, 58>>,    \* 32 "urn:epc:pat:"
    <<117, 114, 110, 58, 101, 112, 99, 58, 114, 97, 119, 58>>,    \* 33 "urn:epc:raw:"
    <<117, 114, 110, 58, 101, 112, 99, 58>>,                      \* 34 "urn:epc:"
    <<117, 114, 110, 58, 110, 102, 99, 58>> >>                    \* 35 "urn:nfc:"

\* MicroUri(uri)
MicroUri__init__(uri) ==
    LET u == _value_to_unicode(IF uri.kind = "None" THEN Str(<<>>) ELSE uri) IN
    IF u.err # "" THEN Raise(u.err)
    ELSE Ok([NoRec EXCEPT !.cls = "MicroUri", !.type = UriType, !.uri = u.val])

\* _prefix_strings.index(p): the 0-based place of the first entry equal to p
PrefixIndex(p) ==
    (CHOOSE i \in 1..Len(_prefix_strings) :
        /\ _prefix_strings[i] = p
        /\ \A j \in 1..(i - 1) : _prefix_strings[j] # p) - 1

\* the for loop of _encode_payload: the 0-based index of the prefix it
\* returns with, the first entry in table order that is not empty and
\* starts the URI, or -1 when it falls through
ScanPrefixes(uri) ==
    LET hits == {i \in 1..Len(_prefix_strings) :
                    _prefix_strings[i] # <<>> /\ StartsWith(uri, _prefix_strings[i])}
    IN IF hits = {} THEN -1
       ELSE PrefixIndex(_prefix_strings[CHOOSE i \in hits : \A j \in hits : i <= j])

MicroUri_encode_payload(r) ==
    LET index == ScanPrefixes(r.uri) IN
    IF index >= 0
    THEN LET e == EncodeUTF8(Drop(r.uri, Len(_prefix_strings[index + 1]))) IN
         IF e.err # "" THEN e ELSE Ok(<<index>> \o e.val)
    ELSE LET e == EncodeUTF8(r.uri) IN
         IF e.err # "" THEN e ELSE Ok(<<0>> \o e.val)

MicroUri_decode_payload(octets) ==
    IF Len(octets) < 1 THEN Raise("IndexError")
    ELSE LET code == octets[1]
             data == Drop(octets, 1)
         IN IF code >= Len(_prefix_strings) THEN Raise("IndexError")
            ELSE LET p == EncodeUTF8(_prefix_strings[code + 1]) IN
                 MicroUri__init__(Bytes(p.val \o data))

----------------------------------------------------------------------------
(* Record: the header codec                                                 *)

\* the data property: _data of a plain Record, else the payload the
\* subclass encodes
data(r) ==
    IF r.cls = "Record" THEN Ok(r.data)
    ELSE IF r.cls = "TextRecord" THEN TextRecord_encode_payload(r)
    ELSE MicroUri_encode_payload(r)

NoFields == [err |-> "", TNF |-> 0, TYPE |-> <<>>, ID |-> <<>>, PAYLOAD |-> <<>>]

\* TNF, TYPE, ID and PAYLOAD as Record._encode derives them from the record
_encode_fields(r) ==
    LET t == _encode_type(Str(r.type)) IN
    IF t.err # "" THEN [NoFields EXCEPT !.err = t.err]
    ELSE IF t.TNF = 0 THEN [NoFields EXCEPT !.TNF = 0]
    ELSE LET d == data(r) IN
         IF d.err # "" THEN [NoFields EXCEPT !.err = d.err]
         ELSE IF t.TNF = 5
              THEN [NoFields EXCEPT !.TNF = 5, !.ID = EncodeLatin(r.name).val,
                                    !.PAYLOAD = d.val]
         ELSE IF t.TNF = 6
              THEN [NoFields EXCEPT !.TNF = 6, !.PAYLOAD = d.val]
         ELSE [NoFields EXCEPT !.TNF = t.TNF, !.TYPE = t.TYPE,
                               !.ID = EncodeLatin(r.name).val, !.PAYLOAD = d.val]

\* a bug: a payload of 256 octets still counts as short
SR_bit_off_by_one(PAYLOAD) == IF Len(PAYLOAD) <= 256 THEN 16 ELSE 0

\* a bug: the ID_LENGTH field is always announced
IL_bit_always(ID) == 8

\* the SR and IL bits of the flags octet
SR_bit(PAYLOAD) == IF Len(PAYLOAD) < 256 THEN 16 ELSE 0
IL_bit(ID) == IF Len(ID) > 0 THEN 8 ELSE 0

\* struct.pack(struct_format, *fields) of Record._encode
_encode_header(f, mb, me, cf) ==
    LET MB == IF mb THEN 128 ELSE 0
        ME == IF me THEN 64 ELSE 0
        CF == IF cf THEN 32 ELSE 0
        SR == SR_bit(f.PAYLOAD)
        IL == IL_bit(f.ID)
        octet0 == BitOr(BitOr(BitOr(MB, ME), BitOr(CF, SR)), BitOr(IL, f.TNF))
    IN PackB(octet0) \o PackB(Len(f.TYPE))
         \o (IF SR # 0 THEN PackB(Len(f.PAYLOAD)) ELSE PackL(Len(f.PAYLOAD)))
         \o (IF IL # 0 THEN PackB(Len(f.ID)) ELSE <<>>)

\* len(PAYLOAD) > self.MAX_PAYLOAD_SIZE
EncodeTooLong(PAYLOAD) == Len(PAYLOAD) > MAX_PAYLOAD_SIZE

\* record._encode(mb, me, cf): the octets written
_encode(r, mb, me, cf) ==
    LET f == _encode_fields(r) IN
    IF f.err # "" THEN Raise(f.err)
    ELSE IF EncodeTooLong(f.PAYLOAD) THEN Raise("EncodeError")
    ELSE Ok(_encode_header(f, mb, me, cf) \o f.TYPE \o f.ID \o f.PAYLOAD)

\* stream.read(n) at position p
Read(s, p, n) == SubSeq(s, p + 1, Min(p + n, Len(s)))

NoResult == [err |-> "", rec |-> NoRec, MB |-> FALSE, ME |-> FALSE, CF |-> FALSE, pos |-> 0]
Fail(e, p) == [NoResult EXCEPT !.err = e, !.pos = p]

\* a bug: PAYLOAD_LENGTH of an empty record (TNF 0) is not checked
LengthsValid_nopayload(TNF, fields) ==
    /\ TNF \in {0, 5, 6} => fields[1] = 0
    /\ TNF = 0 => fields[3] = 0
    /\ TNF \in {1, 2, 3, 4} => fields[1] > 0

\* the structural assertions of Record._decode on the length fields
LengthsValid(TNF, fields) ==
    /\ TNF \in {0, 5, 6} => fields[1] = 0
    /\ TNF = 0 => fields[3] = 0 /\ fields[2] = 0
    /\ TNF \in {1, 2, 3, 4} => fields[1] > 0

\* a bug: a declared length equal to the cap is refused too
DecodeTooLong_inclusive(fields) == fields[2] >= MAX_PAYLOAD_SIZE

\* fields[1] > cls.MAX_PAYLOAD_SIZE
DecodeTooLong(fields) == fields[2] > MAX_PAYLOAD_SIZE

\* a bug: the three fields are read in the order of their length fields
_decode_read_in_header_order(s, p, fields) ==
    LET TYPE == Read(s, p, fields[1])
        PAYLOAD == Read(s, p + Len(TYPE), fields[2])
        ID == Read(s, p + Len(TYPE) + Len(PAYLOAD), fields[3])
    IN [TYPE |-> TYPE, ID |-> ID, PAYLOAD |-> PAYLOAD,
        pos |-> p + Len(TYPE) + Len(PAYLOAD) + Len(ID)]

\* TYPE, ID, PAYLOAD = [stream.read(fields[i]) for i in (0, 2, 1)]
_decode_read(s, p, fields) ==
    LET TYPE == Read(s, p, fields[1])
        ID == Read(s, p + Len(TYPE), fields[3])
        PAYLOAD == Read(s, p + Len(TYPE) + Len(ID), fields[2])
    IN [TYPE |-> TYPE, ID |-> ID, PAYLOAD |-> PAYLOAD,
        pos |-> p + Len(TYPE) + Len(ID) + Len(PAYLOAD)]

\* the payload length bounds of a registered record class
_decode_min_payload_length(c) == IF c = "TextRecord" THEN 1 ELSE 0
\* 0xffffffff, read as 2^31 - 1 like every value from 2^31 on
_decode_max_payload_length(c) == 2147483647

\* record_cls._decode_payload(PAYLOAD, errors)
_decode_payload(c, PAYLOAD) ==
    IF c = "TextRecord" THEN TextRecord_decode_payload(PAYLOAD)
    ELSE MicroUri_decode_payload(PAYLOAD)

\* the tail of Record._decode: from TNF, TYPE, ID and PAYLOAD to the record
_decode_record(TNF, TYPE, ID, PAYLOAD, known) ==
    LET t == _decode_type(TNF, TYPE) IN
    IF t.err # "" THEN Raise(t.err)
    ELSE IF t.val \in DOMAIN known
    THEN LET record_cls == known[t.val] IN
         IF Len(PAYLOAD) < _decode_min_payload_length(record_cls)
         THEN Raise("AttributeError")
         ELSE IF Len(PAYLOAD) > _decode_max_payload_length(record_cls)
         THEN Raise("AttributeError")
         ELSE LET r == _decode_payload(record_cls, PAYLOAD) IN
              IF r.err # "" THEN Raise(r.err)
              ELSE LET n == name_setter(Bytes(ID)) IN
                   IF n.err # "" THEN Raise(n.err)
                   ELSE Ok([r.val EXCEPT !.name = n.val])
    ELSE Record__init__(Str(t.val), Bytes(ID), PAYLOAD)

\* Record._decode(stream, errors, known_types) with the stream at position p:
\* the exception or the record and flags, and the position it leaves
_decode(s, p, known) ==
    IF p >= Len(s) THEN Fail("IndexError", p)
    ELSE
    LET octet0 == s[p + 1]
        MB == BitAnd(octet0, 128) # 0
        ME == BitAnd(octet0, 64) # 0
        CF == BitAnd(octet0, 32) # 0
        SR == BitAnd(octet0, 16) # 0
        IL == BitAnd(octet0, 8) # 0
        TNF == BitAnd(octet0, 7)
        p1 == p + 1
        size == 1 + (IF SR THEN 1 ELSE 4) + (IF IL THEN 1 ELSE 0)
        raw == Read(s, p1, size)
        p2 == p1 + Len(raw)
    IN
    IF TNF = 7 THEN Fail("DecodeError", p1)
    ELSE IF Len(raw) # size THEN Fail("DecodeError", p2)
    ELSE
    LET plen == IF SR THEN raw[2] ELSE UnpackL(SubSeq(raw, 2, 5))
        fields == <<raw[1], plen>> \o (IF IL THEN <<raw[size]>> ELSE <<>>) \o <<0>>
    IN
    IF ~LengthsValid(TNF, fields) THEN Fail("DecodeError", p2)
    ELSE IF DecodeTooLong(fields) THEN Fail("DecodeError", p2)
    ELSE
    LET body == _decode_read(s, p2, fields)
        TYPE == body.TYPE
        ID == body.ID
        PAYLOAD == body.PAYLOAD
        p5 == body.pos
    IN
    IF fields[1] # Len(TYPE) \/ fields[3] # Len(ID) \/ fields[2] # Len(PAYLOAD)
    THEN Fail("DecodeError", p5)
    ELSE LET r == _decode_record(TNF, TYPE, ID, PAYLOAD, known) IN
         IF r.err # "" THEN Fail(r.err, p5)
         ELSE [err |-> "", rec |-> r.val, MB |-> MB, ME |-> ME, CF |-> CF, pos |-> p5]

----------------------------------------------------------------------------
(* The type registry.  A class either has its own _known_types attribute   *)
(* (a dict) or finds that of the nearest base class that has one; a dict   *)
(* is identified by the class that owns it.                                *)

Classes == {"Record", "GlobalRecord", "LocalRecord", "TextRecord"}
Base == [c \in Classes \ {"Record"} |->
            IF c = "TextRecord" THEN "GlobalRecord" ELSE "Record"]

\* the classes that can be registered, and the _type attribute of each
RecordClasses == {"TextRecord", "MicroUri", "LocalText"}
_type(c) == IF c = "MicroUri" THEN UriType ELSE TextType

EmptyDict == [t \in {} |-> ""]
NoAttr == [own |-> FALSE, dict |-> EmptyDict]

\* the class whose dict the attribute lookup cls._known_types finds
RECURSIVE Owner(_, _)
Owner(kt, cls) == IF kt[cls].own THEN cls ELSE Owner(kt, Base[cls])

\* cls._known_types
KnownTypes(kt, cls) == kt[Owner(kt, cls)].dict

\* a bug: the first registration on a derived class starts from the
\* entries of Record
Shadow_copy(kt) == kt["Record"].dict

\* the dict a first registration on a derived class starts from
Shadow(kt) == EmptyDict

\* cls.register_type(record_class): the attributes afterwards
register_type(kt, cls, record_class) ==
    LET kt1 == IF cls # "Record" /\ Owner(kt, cls) = "Record"
               THEN [kt EXCEPT ![cls] = [own |-> TRUE, dict |-> Shadow(kt)]]
               ELSE kt
        o == Owner(kt1, cls)
        d == kt1[o].dict
        k == _type(record_class)
    IN [kt1 EXCEPT ![o].dict =
            [t \in DOMAIN d \cup {k} |-> IF t = k THEN record_class ELSE d[t]]]

\* the attributes once ndef.text and ndef.microuri are imported
DefaultTypes ==
    register_type(
        register_type([c \in Classes |-> IF c = "Record"
                                         THEN [own |-> TRUE, dict |-> EmptyDict]
                                         ELSE NoAttr],
                      "Record", "TextRecord"),
        "Record", "MicroUri")

----------------------------------------------------------------------------
(* The inputs the operations are driven with                               *)

MaxTextLen == 2      \* texts of up to this many characters over TextChars
MaxRecords == 2      \* records written to one stream in SpecStream

RECURSIVE SeqsUpTo(_, _)
SeqsUpTo(S, n) ==
    IF n = 0 THEN {<<>>}
    ELSE LET T == SeqsUpTo(S, n - 1) IN
         T \cup {Append(t, c) : t \in {u \in T : Len(u) = n - 1}, c \in S}

\* "a", e-acute and an emoji: 1, 2 and 4 octets in UTF-8, and two code
\* units in UTF-16 for the emoji
TextChars == {97, 233, 128512}

TextArgs ==
    {Str(t) : t \in SeqsUpTo(TextChars, MaxTextLen)}
      \cup {None, Bytes(<<97>>), Bytes(<<233>>), Other, Str(<<55357>>),
            Str(Fill(128512, 63)), Str(Fill(128512, 64)), Str(<<65279, 97>>),
            Str(<<8364>>), Str(<<97, 8364, 233>>)}

LanguageArgs ==
    {None, Str(EN), Bytes(<<100, 101>>), Str(Fill(120, 63)), Str(Fill(120, 64)),
     Str(<<>>), Str(<<233>>), Other}

EncodingArgs == {"", "UTF-8", "UTF-16", "latin"}

TypeArgs ==
    {None, Str(<<>>), Str(TextType), Str(WKT), Str(WKT \o <<120>>),
     Str(<<116, 101, 120, 116, 47, 112, 108, 97, 105, 110>>),          \* "text/plain"
     Str(EXT \o <<102, 111, 111>>),                                    \* "urn:nfc:ext:foo"
     Str(EXT), Str(TUnknown), Bytes(TUnchanged),
     Str(<<102, 111, 111>>),                                           \* "foo"
     Str(WKT \o Fill(120, 256)), Other}

NameArgs ==
    {None, Str(<<>>), Str(<<105, 100>>), Bytes(<<105, 233>>),
     Str(Fill(110, 255)), Str(Fill(110, 256)), Bytes(Fill(110, 256)),
     Str(<<8364>>), Other}

DataArgs == {<<>>, <<1>>, Fill(0, 255), Fill(0, 256)}

\* every table entry alone and followed by "a", and some URIs that match
\* no entry, several entries, or are not ASCII
UriArgs ==
    {Str(_prefix_strings[i]) : i \in 1..Len(_prefix_strings)}
      \cup {Str(_prefix_strings[i] \o <<97>>) : i \in 1..Len(_prefix_strings)}
      \cup {None, Other, Bytes(<<97>>), Bytes(<<233>>), Str(<<233>>),
            Str(_prefix_strings[4] \o <<233>>),
            Str(_prefix_strings[2] \o <<101, 120, 97, 109, 112, 108, 101, 46, 99, 111, 109>>),
            Str(<<104, 116, 116, 112>>), Str(Fill(97, 255))}

----------------------------------------------------------------------------
(* Operations on a record and on the stream                                 *)

typevars == <<value, tnf_type, type_str>>
recvars == <<rec, stream, pos, sent, got, err>>

\* r = Record(type, name, data)
NewRecord(type, name, d) ==
    \E r \in {Record__init__(type, name, d)} :
    /\ err' = r.err
    /\ rec' = IF r.err = "" THEN r.val ELSE rec
    /\ UNCHANGED <<stream, pos, sent, got, typevars, known_types, structvars>>

\* r = TextRecord(text, language, encoding)
NewTextRecord(text, language, encoding) ==
    \E r \in {TextRecord__init__(text, language, encoding)} :
    /\ err' = r.err
    /\ rec' = IF r.err = "" THEN r.val ELSE rec
    /\ UNCHANGED <<stream, pos, sent, got, typevars, known_types, structvars>>

\* r = MicroUri(uri)
NewMicroUri(uri) ==
    \E r \in {MicroUri__init__(uri)} :
    /\ err' = r.err
    /\ rec' = IF r.err = "" THEN r.val ELSE rec
    /\ UNCHANGED <<stream, pos, sent, got, typevars, known_types, structvars>>

\* r.name = v
SetName(v) ==
    \E n \in {name_setter(v)} :
    /\ rec # NoRec
    /\ err' = n.err
    /\ rec' = IF n.err = "" THEN [rec EXCEPT !.name = n.val] ELSE rec
    /\ UNCHANGED <<stream, pos, sent, got, typevars, known_types, structvars>>

\* the octets of r._encode(mb, me, cf) are appended to the message
Encode(mb, me, cf) ==
    \E e \in {_encode(rec, mb, me, cf)} :
    /\ rec # NoRec
    /\ got = <<>>
    /\ err' = e.err
    /\ IF e.err = ""
       THEN /\ stream' = stream \o e.val
            /\ sent' = Append(sent, [rec |-> rec, mb |-> mb, me |-> me, cf |-> cf,
                                     start |-> Len(stream),
                                     end |-> Len(stream) + Len(e.val)])
       ELSE UNCHANGED <<stream, sent>>
    /\ UNCHANGED <<rec, pos, got, typevars, known_types, structvars>>

\* Record._decode(stream, 'strict', Record._known_types); the caller stops
\* at the first exception
Decode ==
    \E d \in {_decode(stream, pos, KnownTypes(known_types, "Record"))} :
    /\ \A i \in 1..Len(got) : got[i].err = ""
    /\ err' = d.err
    /\ pos' = d.pos
    /\ got' = Append(got, [err |-> d.err, rec |-> d.rec, MB |-> d.MB, ME |-> d.ME,
                           CF |-> d.CF, start |-> pos, end |-> d.pos])
    /\ UNCHANGED <<rec, stream, sent, typevars, known_types, structvars>>

----------------------------------------------------------------------------
(* Spec: one record is constructed, renamed, encoded into a message of one *)
(* record, and the message is decoded.  A constructor that raises ends the *)
(* run.                                                                    *)

NoTypeYet == [err |-> "", TNF |-> -1, TYPE |-> <<>>]
Unset == [err |-> "unset", val |-> <<>>]

TypeIdle == value = None /\ tnf_type = NoTypeYet /\ type_str = Unset
StructIdle ==
    /\ struct_fmt = <<>> /\ struct_values = <<>>
    /\ struct_octets = Unset /\ struct_fields = Unset
RecIdle ==
    /\ rec = NoRec /\ stream = <<>> /\ pos = 0
    /\ sent = <<>> /\ got = <<>> /\ err = ""

Init == RecIdle /\ TypeIdle /\ known_types = DefaultTypes /\ StructIdle

Fresh == rec = NoRec /\ err = ""

Next ==
    \/ Fresh /\ \E t \in TypeArgs, n \in NameArgs, d \in DataArgs : NewRecord(t, n, d)
    \/ Fresh /\ \E t \in TextArgs, l \in LanguageArgs, e \in EncodingArgs :
                    NewTextRecord(t, l, e)
    \/ Fresh /\ \E u \in UriArgs : NewMicroUri(u)
    \/ sent = <<>> /\ \E n \in NameArgs : SetName(n)
    \/ sent = <<>> /\ \E mb, me, cf \in BOOLEAN : Encode(mb, me, cf)
    \/ sent # <<>> /\ Decode

Spec == Init /\ [][Next]_vars

----------------------------------------------------------------------------
(* SpecType: Record._encode_type is applied to a value and                 *)
(* Record._decode_type to the pair it returns.                             *)

MaxTypeLen == 3      \* type strings of up to this many characters over TypeChars

\* "a", "/", "+" and ":"
TypeChars == {97, 47, 43, 58}

TextPlain == <<116, 101, 120, 116, 47, 112, 108, 97, 105, 110>>    \* "text/plain"
ExtFoo == EXT \o <<102, 111, 111>>                                 \* "urn:nfc:ext:foo"

TypeValues ==
    TypeArgs \cup {Str(t) : t \in SeqsUpTo(TypeChars, MaxTypeLen)}
      \cup {Str(TextPlain), Str(ExtFoo), Str(TUnchanged), Bytes(TextType),
            Str(TUnknown \o <<47, 97>>), Str(WKT \o <<233>>), Bytes(WKT \o <<233>>),
            Str(<<97, 47, 97, 58>>),                                   \* "a/a:"
            Str(TextPlain \o <<32, 120>>)}                             \* "text/plain x"

EncodeType ==
    /\ tnf_type = NoTypeYet
    /\ tnf_type' = _encode_type(value)
    /\ UNCHANGED <<value, type_str, recvars, known_types, structvars>>

DecodeType ==
    /\ tnf_type # NoTypeYet /\ tnf_type.err = ""
    /\ type_str = Unset
    /\ type_str' = _decode_type(tnf_type.TNF, tnf_type.TYPE)
    /\ UNCHANGED <<value, tnf_type, recvars, known_types, structvars>>

InitType ==
    /\ value \in TypeValues /\ tnf_type = NoTypeYet /\ type_str = Unset
    /\ RecIdle /\ known_types = DefaultTypes /\ StructIdle

NextType == EncodeType \/ DecodeType

SpecType == InitType /\ [][NextType]_vars

----------------------------------------------------------------------------
(* C2: for each of the six canonical type strings "", "urn:nfc:wkt:T",     *)
(* "text/plain", "urn:nfc:ext:foo", "unknown" and "unchanged",             *)
(* _encode_type returns a pair and _decode_type of that pair is the string *)
(* itself.                                                                 *)

CanonicalTypes == {<<>>, TextType, TextPlain, ExtFoo, TUnknown, TUnchanged}

C2_TypeRoundTrip ==
    (value.kind = "str" /\ value.v \in CanonicalTypes) =>
        /\ tnf_type # NoTypeYet => tnf_type.err = ""
        /\ type_str # Unset => type_str = Ok(value.v)

C2_Witness ==
    /\ value = Str(ExtFoo)
    /\ tnf_type = [err |-> "", TNF |-> 4, TYPE |-> <<102, 111, 111>>]
    /\ type_str = Ok(ExtFoo)

----------------------------------------------------------------------------
(* SpecWire: Record._decode is called, until it raises, on a stream that   *)
(* holds arbitrary octets: every flags octet, small and huge length        *)
(* fields, and the TYPE, ID and PAYLOAD octets whole or cut short.         *)

MaxRawLen == 2       \* TYPE_LENGTH of a raw record is at most this
MaxRawPayload == 4   \* PAYLOAD_LENGTH of a raw record with its payload present

\* all TNF, SR and IL bits; MB, ME and CF all clear, MB and ME set, CF set
RawFlags ==
    {tnf + 16 * sr + 8 * il + hi :
        tnf \in 0..7, sr \in {0, 1}, il \in {0, 1}, hi \in {0, 192, 32}}

\* a text payload: status octet 2, language "en", text "aa..."
RawPayload == <<2, 101, 110>> \o Fill(97, MaxRawPayload)

RawRecord(octet0, TL, PL, IDL, cut) ==
    LET sr == (octet0 \div 16) % 2 = 1
        il == (octet0 \div 8) % 2 = 1
        whole == <<octet0, TL>> \o (IF sr THEN <<PL>> ELSE PackL(PL))
                   \o (IF il THEN <<IDL>> ELSE <<>>)
                   \o Fill(84, TL) \o (IF il THEN Fill(105, IDL) ELSE <<>>)
                   \o Take(RawPayload, PL)
    IN Take(whole, Len(whole) - cut)

\* a header that declares a huge payload, followed by the TYPE and ID
\* octets only
HugeHeader(octet0, TL, PL4, IDL) ==
    LET il == (octet0 \div 8) % 2 = 1
    IN <<octet0, TL>> \o PL4 \o (IF il THEN <<IDL>> ELSE <<>>)
         \o Fill(84, TL) \o (IF il THEN Fill(105, IDL) ELSE <<>>)

\* MAX_PAYLOAD_SIZE - 1, MAX_PAYLOAD_SIZE, MAX_PAYLOAD_SIZE + 1, 2^31 - 1,
\* 2^31 and 2^32 - 1 as four octets
HugeLengths ==
    {PackL(MAX_PAYLOAD_SIZE - 1), PackL(MAX_PAYLOAD_SIZE), PackL(MAX_PAYLOAD_SIZE + 1),
     <<127, 255, 255, 255>>, <<128, 0, 0, 0>>, <<255, 255, 255, 255>>}

RawStreams ==
    {RawRecord(o, TL, PL, IDL, cut) :
        o \in RawFlags, TL \in 0..MaxRawLen, PL \in 0..MaxRawPayload,
        IDL \in {0, 1}, cut \in {0, 1}}
      \cup {HugeHeader(o, TL, PL4, IDL) :
              o \in {f \in RawFlags : (f \div 16) % 2 = 0}, TL \in 0..MaxRawLen,
              PL4 \in HugeLengths, IDL \in {0, 1}}
      \cup {<<>>}

InitWire ==
    /\ stream \in RawStreams
    /\ rec = NoRec /\ pos = 0 /\ sent = <<>> /\ got = <<>> /\ err = ""
    /\ TypeIdle /\ known_types = DefaultTypes /\ StructIdle

NextWire == Decode

SpecWire == InitWire /\ [][NextWire]_vars

----------------------------------------------------------------------------
(* The header that starts at offset p of the octets s, field by field as   *)
(* the wire format lays it out.                                            *)

HdrTNF(s, p) == s[p + 1] % 8
HdrMB(s, p) == (s[p + 1] \div 128) % 2 = 1
HdrME(s, p) == (s[p + 1] \div 64) % 2 = 1
HdrCF(s, p) == (s[p + 1] \div 32) % 2 = 1
HdrSR(s, p) == (s[p + 1] \div 16) % 2 = 1
HdrIL(s, p) == (s[p + 1] \div 8) % 2 = 1
HdrSize(s, p) == 2 + (IF HdrSR(s, p) THEN 1 ELSE 4) + (IF HdrIL(s, p) THEN 1 ELSE 0)
HdrComplete(s, p) == p < Len(s) /\ p + HdrSize(s, p) <= Len(s)
HdrTL(s, p) == s[p + 2]
\* PAYLOAD_LENGTH as its one or four octets
HdrPL(s, p) == SubSeq(s, p + 3, p + 2 + (IF HdrSR(s, p) THEN 1 ELSE 4))
HdrIDL(s, p) == IF HdrIL(s, p) THEN s[p + HdrSize(s, p)] ELSE 0
AllZero(b) == \A i \in 1..Len(b) : b[i] = 0

\* b, an octet string of one or four octets, read as a big-endian number,
\* is greater than n (n < 2^31)
ExceedsBE(b, n) ==
    IF Len(b) = 1 THEN b[1] > n
    ELSE b[1] >= 128 \/ b[1] * 16777216 + b[2] * 65536 + b[3] * 256 + b[4] > n

----------------------------------------------------------------------------
(* C3: Record._decode returns a record only when the header satisfies the  *)
(* structural invariants and raises DecodeError otherwise: TNF 7 is        *)
(* rejected; TNF 0, 5 and 6 need TYPE_LENGTH 0; TNF 0 also needs ID_LENGTH *)
(* 0 and PAYLOAD_LENGTH 0; TNF 1 to 4 need TYPE_LENGTH > 0; whatever the   *)
(* SR and IL flags are.                                                    *)

Structural(tnf, TL, PL, IDL) ==
    /\ tnf # 7
    /\ tnf \in {0, 5, 6} => TL = 0
    /\ tnf = 0 => IDL = 0 /\ AllZero(PL)
    /\ tnf \in {1, 2, 3, 4} => TL > 0

C3_HeaderValidation ==
    \A i \in 1..Len(got) :
        LET p == got[i].start IN
        /\ (p < Len(stream) /\ HdrTNF(stream, p) = 7) => got[i].err = "DecodeError"
        /\ (HdrComplete(stream, p)
              /\ ~Structural(HdrTNF(stream, p), HdrTL(stream, p),
                             HdrPL(stream, p), HdrIDL(stream, p)))
             => got[i].err = "DecodeError"
        /\ got[i].err = "" =>
             /\ HdrComplete(stream, p)
             /\ Structural(HdrTNF(stream, p), HdrTL(stream, p),
                           HdrPL(stream, p), HdrIDL(stream, p))

\* an empty record (TNF 0) with the long length form and an ID_LENGTH
\* field, rejected for its PAYLOAD_LENGTH of 1 alone
C3_Witness ==
    /\ stream = <<8, 0, 0, 0, 0, 1, 0, 2>>
    /\ Len(got) = 1
    /\ got[1].err = "DecodeError"

----------------------------------------------------------------------------
(* What Record._encode wrote for the i-th entry of sent, read back from    *)
(* the stream.                                                             *)

SentTNF(i) == HdrTNF(stream, sent[i].start)
\* the octets that follow the header, the TYPE and the ID
SentPayload(i) ==
    LET p == sent[i].start IN
    SubSeq(stream,
           p + HdrSize(stream, p) + HdrTL(stream, p) + HdrIDL(stream, p) + 1,
           sent[i].end)
SentID(i) ==
    LET q == sent[i].start + HdrSize(stream, sent[i].start) + HdrTL(stream, sent[i].start)
    IN SubSeq(stream, q + 1, q + HdrIDL(stream, sent[i].start))
\* one or four big-endian octets as a number below 2^31
ValueBE(b) ==
    IF Len(b) = 1 THEN b[1]
    ELSE b[1] * 16777216 + b[2] * 65536 + b[3] * 256 + b[4]

----------------------------------------------------------------------------
(* C1: decoding what Record._encode wrote for a TextRecord or a MicroUri   *)
(* returns a record of the same class and type with the same name and the  *)
(* same text, language and encoding, or the same uri.                      *)

C1_RoundTrip ==
    \A i \in 1..Len(got) :
        (i <= Len(sent) /\ sent[i].rec.cls \in {"TextRecord", "MicroUri"}) =>
            /\ got[i].err = ""
            /\ got[i].rec = sent[i].rec

----------------------------------------------------------------------------
(* C6: in the octets Record._encode writes, the SR bit is set iff the      *)
(* PAYLOAD written is shorter than 256 octets; the PAYLOAD_LENGTH field is *)
(* one octet when SR is set and four octets, big-endian, when it is not;   *)
(* its value is the number of PAYLOAD octets that follow, which are the    *)
(* record's payload.  For every begin, end and chunk flag.                 *)

C6_ShortRecord ==
    \A i \in 1..Len(sent) :
        LET p == sent[i].start
            n == Len(SentPayload(i))
        IN /\ HdrSR(stream, p) <=> n < 256
           /\ Len(HdrPL(stream, p)) = (IF n < 256 THEN 1 ELSE 4)
           /\ ValueBE(HdrPL(stream, p)) = n
           /\ sent[i].end - p = HdrSize(stream, p) + HdrTL(stream, p)
                                  + HdrIDL(stream, p) + n
           /\ SentPayload(i) = _encode_fields(sent[i].rec).PAYLOAD
           /\ HdrMB(stream, p) = sent[i].mb
           /\ HdrME(stream, p) = sent[i].me
           /\ HdrCF(stream, p) = sent[i].cf

\* a text record of 256 payload octets or more, written with the chunk
\* flag set and the begin flag clear
C6_Witness ==
    /\ Len(sent) = 1
    /\ sent[1].rec.cls = "TextRecord"
    /\ sent[1].cf /\ ~sent[1].mb
    /\ ~HdrSR(stream, 0)
    /\ Len(SentPayload(1)) >= 256

----------------------------------------------------------------------------
(* C7, as claimed: for every record Record._encode can encode, whatever    *)
(* its TNF, the IL bit is set iff the record's name is non-empty.          *)

C7_Claimed ==
    \A i \in 1..Len(sent) :
        HdrIL(stream, sent[i].start) <=> sent[i].rec.name # <<>>

(* C7, amended: the IL bit is set iff the record's name is non-empty and   *)
(* the TNF is neither 0 (empty) nor 6 (unchanged); when set, the ID        *)
(* written is the name.  For TNF 0 and TNF 6 the ID is always empty and    *)
(* IL is clear whatever the name.                                          *)

C7_IdLengthPresent ==
    \A i \in 1..Len(sent) :
        LET p == sent[i].start IN
        /\ HdrIL(stream, p) <=>
              (sent[i].rec.name # <<>> /\ SentTNF(i) \notin {0, 6})
        /\ HdrIL(stream, p) => SentID(i) = sent[i].rec.name

\* an "unchanged" record with a name, written without an ID
C7_Witness ==
    /\ Len(sent) = 1
    /\ sent[1].rec.type = TUnchanged
    /\ sent[1].rec.name # <<>>
    /\ ~HdrIL(stream, 0)

----------------------------------------------------------------------------
(* C8: a record's name is never longer than 255 octets: assigning a value  *)
(* of 255 octets stores it, assigning one of 256 octets raises ValueError  *)
(* and leaves the stored name as it was; a constructor given 256 octets    *)
(* raises and constructs nothing.                                          *)

IsOctets(v, n) ==
    v.kind \in {"str", "bytes"} /\ Len(v.v) = n /\ \A i \in 1..Len(v.v) : v.v[i] < 256

C8_Stored ==
    /\ Len(rec.name) <= 255
    /\ \A i \in 1..Len(got) : Len(got[i].rec.name) <= 255

LongNames == {n \in NameArgs : IsOctets(n, 255) \/ IsOctets(n, 256)}

C8_SetName ==
    (rec # NoRec /\ sent' = sent /\ got' = got) =>
        \A v \in LongNames :
            SetName(v) =>
               /\ IsOctets(v, 256) => err' = "ValueError" /\ rec' = rec
               /\ IsOctets(v, 255) => err' = "" /\ rec'.name = v.v

C8_NewRecord ==
    Fresh =>
        \A v \in LongNames :
            \A t \in TypeArgs, d \in DataArgs :
                NewRecord(t, v, d) =>
                   /\ IsOctets(v, 256) => err' # "" /\ rec' = rec
                   /\ (IsOctets(v, 255) /\ err' = "") => rec'.name = v.v

C8_NameBound ==
    /\ C8_Stored
    /\ [][C8_Stored' /\ C8_SetName /\ C8_NewRecord]_vars

\* a name of 255 octets was stored, and a later assignment was refused
C8_Witness ==
    /\ rec.cls = "TextRecord"
    /\ sent = <<>>
    /\ Len(rec.name) = 255
    /\ err = "ValueError"

----------------------------------------------------------------------------
(* C9: MicroUri._encode_payload writes the index of the first table entry  *)
(* after entry 0 that is a prefix of the URI, then the rest of the URI,    *)
(* and index 0 then the whole URI when no entry is a prefix; decoding the  *)
(* payload gives the URI back.                                             *)

IsPrefixAt(uri, k) == StartsWith(uri, _prefix_strings[k + 1])

C9_FirstMatch(i) ==
    LET uri == sent[i].rec.uri
        P == SentPayload(i)
        k == P[1]
    IN /\ Len(P) >= 1
       /\ k \in 0..35
       /\ k > 0 => /\ IsPrefixAt(uri, k)
                   /\ \A j \in 1..(k - 1) : ~IsPrefixAt(uri, j)
                   /\ Drop(P, 1) = EncodeUTF8(Drop(uri, Len(_prefix_strings[k + 1]))).val
       /\ k = 0 => /\ \A j \in 1..35 : ~IsPrefixAt(uri, j)
                   /\ Drop(P, 1) = EncodeUTF8(uri).val

C9_UriCodec ==
    \A i \in 1..Len(sent) :
        sent[i].rec.cls = "MicroUri" =>
            /\ C9_FirstMatch(i)
            /\ i <= Len(got) => got[i].err = "" /\ got[i].rec.uri = sent[i].rec.uri

----------------------------------------------------------------------------
(* SpecCap: records whose payload is around MAX_PAYLOAD_SIZE octets are    *)
(* encoded and decoded, and streams that declare a PAYLOAD_LENGTH around   *)
(* MAX_PAYLOAD_SIZE and end before the payload are decoded.                 *)
(* The records are of types no class is registered for, so that the        *)
(* payload is the data as it stands.                                       *)

CapSizes == {0, 1, 255, 256, 257, MAX_PAYLOAD_SIZE, MAX_PAYLOAD_SIZE + 1}

CapTypes == {Str(ExtFoo), Str(TUnknown), Str(<<>>)}

\* the flags octets of the declared records: TNF 4 and TNF 5, long form,
\* with and without ID_LENGTH and message flags
CapFlags == {4, 12, 5, 196}

\* a header that declares the length PL4, followed by the TYPE and ID
\* octets and by no payload
CapStream(octet0, PL4) ==
    HugeHeader(octet0, IF octet0 % 8 = 5 THEN 0 ELSE 1, PL4, 1)

CapStreams == {CapStream(o, PL4) : o \in CapFlags, PL4 \in HugeLengths}

InitCap ==
    /\ stream \in CapStreams \cup {<<>>}
    /\ rec = NoRec /\ pos = 0 /\ sent = <<>> /\ got = <<>> /\ err = ""
    /\ TypeIdle /\ known_types = DefaultTypes /\ StructIdle

NextCap ==
    \/ /\ rec = NoRec /\ stream = <<>>
       /\ \E t \in CapTypes, n \in CapSizes : NewRecord(t, Str(<<105, 100>>), Fill(0, n))
    \/ sent = <<>> /\ \E mb \in BOOLEAN : Encode(mb, TRUE, FALSE)
    \/ (sent # <<>> \/ stream # <<>>) /\ Decode

SpecCap == InitCap /\ [][NextCap]_vars

----------------------------------------------------------------------------
(* C4: the cap of MAX_PAYLOAD_SIZE = 0x100000 payload octets is inclusive  *)
(* in both directions.  Record._encode raises EncodeError and writes       *)
(* nothing when the PAYLOAD is longer, and succeeds when it is not, at     *)
(* 0x100000 octets too.  Record._decode raises DecodeError when the        *)
(* declared PAYLOAD_LENGTH is greater, with the stream left right after    *)
(* the length fields, no TYPE, ID or PAYLOAD octet read; a declared length *)
(* of exactly 0x100000 whose octets are there is decoded.                  *)

C4_Encode ==
    (rec # NoRec /\ sent = <<>>) =>
        IF Len(_encode_fields(rec).PAYLOAD) > MAX_PAYLOAD_SIZE
        THEN err' = "EncodeError" /\ stream' = stream /\ sent' = sent
        ELSE /\ err' = ""
             /\ Len(sent') = 1
             /\ Len(stream') = Len(stream) + Len(_encode_fields(rec).PAYLOAD)
                                 + Len(_encode_fields(rec).TYPE)
                                 + Len(_encode_fields(rec).ID)
                                 + HdrSize(stream', Len(stream))

C4_Decode ==
    \A k \in 1..Len(got) :
        LET p == got[k].start
            h == p + HdrSize(stream, p)
            PL == HdrPL(stream, p)
            body == h + HdrTL(stream, p) + HdrIDL(stream, p)
        IN (/\ HdrComplete(stream, p)
            /\ Structural(HdrTNF(stream, p), HdrTL(stream, p), PL,
                          HdrIDL(stream, p))) =>
              /\ ExceedsBE(PL, MAX_PAYLOAD_SIZE) =>
                    got[k].err = "DecodeError" /\ got[k].end = h
              /\ (~ExceedsBE(PL, MAX_PAYLOAD_SIZE)
                    /\ Len(stream) >= body + ValueBE(PL)) =>
                    /\ got[k].err = ""
                    /\ Len(got[k].rec.data) = ValueBE(PL)
                    /\ got[k].end = body + ValueBE(PL)
              /\ (~ExceedsBE(PL, MAX_PAYLOAD_SIZE)
                    /\ Len(stream) < body + ValueBE(PL)) =>
                    got[k].err = "DecodeError" /\ got[k].end = Len(stream)

C4_Written == \A i \in 1..Len(sent) : Len(SentPayload(i)) <= MAX_PAYLOAD_SIZE

C4_PayloadCap ==
    /\ C4_Decode /\ C4_Written
    /\ [][C4_Encode /\ C4_Decode' /\ C4_Written']_vars

\* a header that declares MAX_PAYLOAD_SIZE + 1 payload octets, with an ID
\* and all message flags but CF, was refused right after its length fields
C4_Witness ==
    /\ stream = CapStream(196, PackL(MAX_PAYLOAD_SIZE + 1))
    /\ Len(got) = 1
    /\ got[1].err = "DecodeError"
    /\ got[1].end = 6
    /\ Len(stream) > 6

----------------------------------------------------------------------------
(* SpecStream: up to MaxRecords records are constructed and encoded one    *)
(* after the other into one stream, which is then decoded call by call;    *)
(* or the message of test.py is decoded.                                   *)

\* test_data of test.py
test_data ==
    <<145, 1, 21, 84, 2, 101, 110, 116, 101, 115, 116, 32, 116, 101, 120, 116, 32,
      114, 101, 99, 111, 114, 100, 32, 49,
      81, 1, 21, 84, 2, 101, 110, 116, 101, 115, 116, 32, 116, 101, 120, 116, 32,
      114, 101, 99, 111, 114, 100, 32, 50>>

\* "test text record "
TestText == SubSeq(test_data, 8, 24)

\* the last record constructed has been written
Written == rec = NoRec \/ (sent # <<>> /\ sent[Len(sent)].rec = rec)

NextStream ==
    \/ /\ stream # test_data /\ got = <<>> /\ Written /\ Len(sent) < MaxRecords
       /\ \E e \in {"", "UTF-16"} : NewTextRecord(Str(<<97>>), None, e)
    \/ /\ stream # test_data /\ got = <<>> /\ Written /\ Len(sent) < MaxRecords
       /\ NewMicroUri(Str(_prefix_strings[2] \o <<97>>))
    \/ /\ stream # test_data /\ got = <<>> /\ Written /\ Len(sent) < MaxRecords
       /\ NewRecord(Str(ExtFoo), Str(<<105, 100>>), Fill(7, 256))
    \/ /\ ~Written
       /\ \E mb, me, cf \in BOOLEAN : Encode(mb, me, cf)
    \/ stream # <<>> /\ Written /\ Decode

InitStream ==
    /\ stream \in {<<>>, test_data}
    /\ rec = NoRec /\ pos = 0 /\ sent = <<>> /\ got = <<>> /\ err = ""
    /\ TypeIdle /\ known_types = DefaultTypes /\ StructIdle

SpecStream == InitStream /\ [][NextStream]_vars

----------------------------------------------------------------------------
(* C5: each Record._decode call on a stream of several encoded records     *)
(* starts where the previous one ended and consumes one record: the flags  *)
(* octet and the length fields, then TYPE, ID and PAYLOAD in that order.   *)
(* The calls return the records in the order they were encoded in, each    *)
(* with the MB, ME and CF it was encoded with.  The message of test.py     *)
(* decodes to the text "test text record 1" with MB set and ME clear, then *)
(* "test text record 2" with MB clear and ME set, both in language "en"    *)
(* and UTF-8.                                                              *)

C5_OneRecordPerCall(k) ==
    LET p == got[k].start
        t == p + HdrSize(stream, p)
        i == t + HdrTL(stream, p)
        d == i + HdrIDL(stream, p)
        e == d + ValueBE(HdrPL(stream, p))
    IN /\ p = (IF k = 1 THEN 0 ELSE got[k - 1].end)
       /\ got[k].err = ""
       /\ got[k].end = e
       /\ got[k].MB = HdrMB(stream, p)
       /\ got[k].ME = HdrME(stream, p)
       /\ got[k].CF = HdrCF(stream, p)
       /\ got[k].rec.name = SubSeq(stream, i + 1, d)
       /\ got[k].rec.cls = "Record" =>
             /\ got[k].rec.data = SubSeq(stream, d + 1, e)
             /\ _encode_type(Str(got[k].rec.type)).TYPE = SubSeq(stream, t + 1, i)

C5_TestMessage ==
    \A k \in 1..Len(got) :
        k <= 2 =>
            /\ C5_OneRecordPerCall(k)
            /\ got[k].rec.cls = "TextRecord"
            /\ got[k].rec.text = TestText \o <<48 + k>>
            /\ got[k].rec.lang = EN
            /\ got[k].rec.utfx = "UTF-8"
            /\ got[k].MB = (k = 1)
            /\ got[k].ME = (k = 2)
            /\ ~got[k].CF

C5_StreamDecode ==
    /\ stream = test_data => C5_TestMessage
    /\ \A k \in 1..Len(got) :
          k <= Len(sent) =>
              /\ C5_OneRecordPerCall(k)
              /\ got[k].start = sent[k].start
              /\ got[k].end = sent[k].end
              /\ got[k].rec = sent[k].rec
              /\ got[k].MB = sent[k].mb
              /\ got[k].ME = sent[k].me
              /\ got[k].CF = sent[k].cf

\* a text record and then a record with an ID and a long payload, written
\* with different flags, have both been decoded
C5_Witness ==
    /\ Len(sent) = 2 /\ Len(got) = 2
    /\ sent[1].rec.cls = "TextRecord" /\ sent[1].mb /\ ~sent[1].me /\ sent[1].cf
    /\ sent[2].rec.cls = "Record" /\ ~sent[2].mb /\ sent[2].me /\ ~sent[2].cf
    /\ got[2].err = ""

----------------------------------------------------------------------------
(* SpecRegistry: starting from the class definitions, with nothing         *)
(* registered, record classes are registered on Record and on the classes  *)
(* derived from it, in any order.                                          *)

ClassDefinitions ==
    [c \in Classes |-> IF c = "Record" THEN [own |-> TRUE, dict |-> EmptyDict]
                       ELSE NoAttr]

\* cls.register_type(record_class)
Register(cls, record_class) ==
    /\ known_types' = register_type(known_types, cls, record_class)
    /\ UNCHANGED <<recvars, typevars, structvars>>

InitRegistry == RecIdle /\ TypeIdle /\ known_types = ClassDefinitions /\ StructIdle

NextRegistry == \E cls \in Classes, record_class \in RecordClasses :
                    Register(cls, record_class)

SpecRegistry == InitRegistry /\ [][NextRegistry]_vars

\* cls is a derived class that still finds the _known_types of Record
SharesBase(cls) == cls # "Record" /\ Owner(known_types, cls) = "Record"

----------------------------------------------------------------------------
(* C10, as claimed: after the first register_type call on a derived class  *)
(* that still shares the mapping of Record, every type registered in the   *)
(* mapping of Record before the call is resolvable through the derived     *)
(* class, to the same record class (or to the one just registered under    *)
(* that type).                                                             *)

----------------------------------------------------------------------------
(* C11: a register_type call on a derived class never adds, removes or     *)
(* overrides an entry in the mapping of Record, nor in the mapping that    *)
(* any other derived class finds, whether the two classes are siblings or  *)
(* one is derived from the other.                                          *)

C11_Isolation ==
    [][\A cls \in Classes \ {"Record"}, rc \in RecordClasses :
          Register(cls, rc) =>
              \A c \in Classes \ {cls} :
                  KnownTypes(known_types', c) = KnownTypes(known_types, c)]_vars

----------------------------------------------------------------------------
(* The TYPE, ID and PAYLOAD octets of the record whose header starts at    *)
(* offset p of the stream, as the length fields lay them out.              *)

WireBody(p) == p + HdrSize(stream, p)
WireEnd(p) ==
    WireBody(p) + HdrTL(stream, p) + HdrIDL(stream, p) + ValueBE(HdrPL(stream, p))
WireTYPE(p) == SubSeq(stream, WireBody(p) + 1, WireBody(p) + HdrTL(stream, p))
WireID(p) ==
    SubSeq(stream, WireBody(p) + HdrTL(stream, p) + 1,
           WireBody(p) + HdrTL(stream, p) + HdrIDL(stream, p))
WirePAYLOAD(p) ==
    SubSeq(stream, WireBody(p) + HdrTL(stream, p) + HdrIDL(stream, p) + 1, WireEnd(p))

\* the record at offset p passes the header validation and is all there
WireValid(p) ==
    /\ HdrComplete(stream, p)
    /\ Structural(HdrTNF(stream, p), HdrTL(stream, p), HdrPL(stream, p),
                  HdrIDL(stream, p))
    /\ ~ExceedsBE(HdrPL(stream, p), MAX_PAYLOAD_SIZE)
    /\ WireEnd(p) <= Len(stream)

\* no class is registered for the type string of the record at offset p
WireOpaque(p) ==
    LET t == _decode_type(HdrTNF(stream, p), WireTYPE(p)) IN
    t.err = "" /\ t.val \notin DOMAIN KnownTypes(known_types, "Record")

(* C12: for every wire record that passes the header validation, is all    *)
(* there, and whose type string (TNF 2 and TNF 3 with any ASCII TYPE       *)
(* included) has no registered class, Record._decode does not raise and    *)
(* returns a Record whose type is _decode_type(TNF, TYPE), whose name is   *)
(* the ID and whose data is the PAYLOAD.                                   *)

C12_Opaque ==
    \A i \in 1..Len(got) :
        LET p == got[i].start IN
        (WireValid(p) /\ WireOpaque(p)) =>
            /\ got[i].err = ""
            /\ got[i].rec.cls = "Record"
            /\ got[i].rec.type = _decode_type(HdrTNF(stream, p), WireTYPE(p)).val
            /\ got[i].rec.name = WireID(p)
            /\ got[i].rec.data = WirePAYLOAD(p)

----------------------------------------------------------------------------
(* C13: when the stream ends before the end of a valid record (before its  *)
(* flags octet, inside the length fields, or inside TYPE, ID or PAYLOAD),  *)
(* Record._decode raises DecodeError and returns no record; no other error *)
(* kind escapes.                                                           *)

\* the stream holds a strict prefix of a valid record from offset p on
Truncated(p) ==
    \/ p >= Len(stream)
    \/ ~HdrComplete(stream, p) /\ HdrTNF(stream, p) # 7
    \/ /\ HdrComplete(stream, p)
       /\ Structural(HdrTNF(stream, p), HdrTL(stream, p), HdrPL(stream, p),
                     HdrIDL(stream, p))
       /\ ~ExceedsBE(HdrPL(stream, p), MAX_PAYLOAD_SIZE)
       /\ WireEnd(p) > Len(stream)

C13_Underflow ==
    \A i \in 1..Len(got) :
        Truncated(got[i].start) => got[i].err = "DecodeError" /\ got[i].rec = NoRec

----------------------------------------------------------------------------
(* C14: Record._encode_type agrees with the rule table on every string:    *)
(* empty or None gives (0, empty); "urn:nfc:wkt:" + X gives (1, X); a      *)
(* value of the form token "/" token, the left token of letters, digits    *)
(* and hyphens, the right one of letters, digits, hyphens, plus signs and  *)
(* periods, gives (2, value); "urn:nfc:ext:" + X gives (4, X); "unknown"   *)
(* gives (5, empty); "unchanged" gives (6, empty); any other value fails   *)
(* with an error of the ValueError kind; TNF 3 and 7 are never returned.   *)

\* v is token "/" token
IsMediaType(v) ==
    \E k \in 2..(Len(v) - 1) :
        /\ v[k] = 47
        /\ \A j \in 1..(k - 1) : IsAlnum(v[j]) \/ v[j] = 45
        /\ \A j \in (k + 1)..Len(v) : IsAlnum(v[j]) \/ v[j] \in {45, 43, 46}

\* the pair of the rule table for the string v, <<-1, <<>>>> for a failure
RuleTable(v) ==
    IF v = <<>> THEN <<0, <<>>>>
    ELSE IF StartsWith(v, WKT) THEN <<1, Drop(v, 12)>>
    ELSE IF IsMediaType(v) THEN <<2, v>>
    ELSE IF StartsWith(v, EXT) THEN <<4, Drop(v, 12)>>
    ELSE IF v = TUnknown THEN <<5, <<>>>>
    ELSE IF v = TUnchanged THEN <<6, <<>>>>
    ELSE <<-1, <<>>>>

C14_RuleTable ==
    (value.kind \in {"None", "str"} /\ tnf_type # NoTypeYet) =>
        LET want == RuleTable(value.v) IN
        /\ tnf_type.err \in {"", "ValueError", "UnicodeEncodeError"}
        /\ tnf_type.err = "" => tnf_type.TNF \notin {3, 7}
        /\ (want[1] = -1 \/ ~IsAscii(value.v) \/ Len(want[2]) > 255)
              => tnf_type.err # ""
        /\ (want[1] # -1 /\ IsAscii(value.v) /\ Len(want[2]) <= 255) =>
              /\ tnf_type.err = ""
              /\ <<tnf_type.TNF, tnf_type.TYPE>> = want

----------------------------------------------------------------------------
(* C15: for a Text record, a PAYLOAD of no octets is rejected with         *)
(* DecodeError by Record._decode; TextRecord._decode_payload raises        *)
(* DecodeError when the language code length L, bits 0 to 5 of the status  *)
(* octet, is 0 or greater than the number of octets after the status       *)
(* octet; otherwise the record returned is a TextRecord whose language is  *)
(* the L octets after the status octet, whose encoding is UTF-16 if bit 7  *)
(* of the status octet is set and UTF-8 if not, and whose text is the rest *)
(* of the payload decoded in that encoding.                                *)

\* the record at offset p is a whole, valid record of type "urn:nfc:wkt:T"
WireText(p) == WireValid(p) /\ HdrTNF(stream, p) = 1 /\ WireTYPE(p) = <<84>>

\* what the claim expects of the record decoded from the payload P
TextDecoded(P, e, r) ==
    IF Len(P) = 0 \/ P[1] % 64 = 0 \/ P[1] % 64 > Len(P) - 1
    THEN e = "DecodeError"
    ELSE LET L == P[1] % 64
             rest == SubSeq(P, 2 + L, Len(P))
             TEXT == IF P[1] >= 128 THEN DecodeUTF16(rest) ELSE DecodeUTF8(rest)
         IN TEXT.err = "" =>
              /\ e = ""
              /\ r.cls = "TextRecord"
              /\ r.lang = SubSeq(P, 2, 1 + L)
              /\ r.utfx = (IF P[1] >= 128 THEN "UTF-16" ELSE "UTF-8")
              /\ r.text = TEXT.val

C15_TextPayload ==
    \A i \in 1..Len(got) :
        WireText(got[i].start) =>
            TextDecoded(WirePAYLOAD(got[i].start), got[i].err, got[i].rec)

----------------------------------------------------------------------------
(* The struct engine on its own: a format and matching values are encoded,  *)
(* and the octets are decoded again with always_tuple=True.                 *)

MaxStructInt == 2     \* the integer fields take the values 0..MaxStructInt and 255
StructInts == {IntV(n) : n \in 0..MaxStructInt} \cup {IntV(255)}
StructWords == {IntV(0), IntV(258), IntV(65535)}
StructRuns == {BytesV(<<>>), BytesV(<<97>>), BytesV(<<97, 98>>)}
\* the values of a group with one field per group
StructGroups == {TupleV(<<>>), TupleV(<<IntV(1)>>), TupleV(<<IntV(1), IntV(2)>>)}
\* the values of a group with two fields per group: as the flat tuple that
\* _decode_struct returns, and as a tuple of pairs
StructPairs ==
    {TupleV(<<>>), TupleV(<<IntV(1), IntV(2)>>),
     TupleV(<<IntV(1), IntV(2), IntV(3), IntV(4)>>),
     TupleV(<<TupleV(<<IntV(1), IntV(2)>>)>>),
     TupleV(<<TupleV(<<IntV(1), IntV(2)>>), TupleV(<<IntV(3), IntV(4)>>)>>)}

StructCall(f, xs) == [fmt |-> f, values |-> xs]

StructArgs ==
    {StructCall(<<"B">>, <<a>>) : a \in StructInts}
    \cup {StructCall(<<"B", "B">>, <<a, b>>) : a, b \in StructInts}
    \cup {StructCall(<<">", "H">>, <<h>>) : h \in StructWords}
    \cup {StructCall(<<"<", "H">>, <<h>>) : h \in StructWords}
    \cup {StructCall(<<"B", "2", "s">>, <<a, BytesV(<<97, 98>>)>>) : a \in StructInts}
    \cup {StructCall(<<"B", "+">>, <<r>>) : r \in StructRuns}
    \cup {StructCall(<<"B", "+", "B">>, <<r, a>>) : r \in StructRuns, a \in StructInts}
    \cup {StructCall(<<"B", "B", "+">>, <<a, r>>) : r \in StructRuns, a \in StructInts}
    \cup {StructCall(<<"B", "+", "B", "+">>, <<r, s>>) : r, s \in StructRuns}
    \cup {StructCall(<<"B", "+", "(", "B", ")">>, <<g>>) : g \in StructGroups}
    \cup {StructCall(<<"B", "+", "(", "B", ")", "B">>, <<g, a>>) : g \in StructGroups, a \in StructInts}
    \cup {StructCall(<<">", "H", "+", "(", "H", ")">>, <<g>>) : g \in StructGroups}
    \cup {StructCall(<<"B", "+", "(", "B", "B", ")">>, <<g>>) : g \in StructPairs}
    \cup {StructCall(<<"*">>, <<r>>) : r \in StructRuns}
    \cup {StructCall(<<"B", "*">>, <<a, r>>) : a \in StructInts, r \in StructRuns}
    \cup {StructCall(<<"*", "B">>, ValOf(g)) : g \in StructGroups}
    \cup {StructCall(<<"B", "+", "*">>, <<r, s>>) : r, s \in StructRuns}
    \cup {StructCall(<<"B", "+", "(", "B", ")", "*">>, <<g, r>>) : g \in StructGroups, r \in StructRuns}

InitStruct ==
    /\ RecIdle /\ TypeIdle /\ known_types = DefaultTypes
    /\ \E c \in StructArgs : struct_fmt = c.fmt /\ struct_values = c.values
    /\ struct_octets = Unset /\ struct_fields = Unset

\* octets = Record._encode_struct(fmt, *values)
EncodeStruct ==
    /\ struct_octets = Unset
    /\ struct_octets' = _encode_struct(struct_fmt, struct_values)
    /\ UNCHANGED <<recvars, typevars, known_types, struct_fmt, struct_values, struct_fields>>

\* fields = Record._decode_struct(fmt, octets, always_tuple=True)
DecodeStruct ==
    /\ struct_octets.err = "" /\ struct_fields = Unset
    /\ struct_fields' = _decode_struct(struct_fmt, struct_octets.val, 0)
    /\ UNCHANGED <<recvars, typevars, known_types, struct_fmt, struct_values, struct_octets>>

NextStruct == EncodeStruct \/ DecodeStruct

SpecStruct == InitStruct /\ [][NextStruct]_vars

\* A format with a group of several fields
MultiFieldGroup(f) ==
    \E i, j \in 1..Len(f) : i + 2 < j /\ f[i] = "(" /\ f[j] = ")"

\* The length-linked field is the first one: the formats B+..., with the
\* length in the first octet
LinkedFirst(f) == Len(f) >= 2 /\ f[1] = "B" /\ f[2] = "+"

\* C16: for every format of the table and every value sequence matching it,
\* _encode_struct succeeds, the length it puts ahead of a length-linked first
\* field is the byte length of a bytes value or the element count of a group,
\* and _decode_struct(fmt, octets, always_tuple=True) returns the values
C16_StructRoundTrip ==
    /\ struct_octets # Unset =>
          /\ struct_octets.err = ""
          /\ LinkedFirst(struct_fmt) =>
                struct_octets.val[1] =
                    (IF MultiFieldGroup(struct_fmt) /\ ValOf(struct_values[1]) # <<>>
                        /\ KindOf(ValOf(struct_values[1])[1]) = "int"
                     THEN Len(ValOf(struct_values[1])) \div 2
                     ELSE Len(ValOf(struct_values[1])))
    /\ struct_fields # Unset => struct_fields = Ok(struct_values)

\* The same, for the formats whose groups have one field
C16_SingleFieldGroups ==
    ~MultiFieldGroup(struct_fmt) => C16_StructRoundTrip

\* A group of two values was encoded and decoded
C16_GroupDecoded ==
    /\ struct_fmt = <<"B", "+", "(", "B", ")", "B">>
    /\ Len(ValOf(struct_values[1])) = 2
    /\ struct_fields # Unset

\* A wildcard with a trailing primitive was encoded and decoded
C16_WildcardDecoded ==
    /\ struct_fmt = <<"*", "B">> /\ Len(struct_values) = 2 /\ struct_fields # Unset

----------------------------------------------------------------------------
(* C17: what Record._encode wrote for a Record is accepted by               *)
(* Record._decode.                                                          *)

\* The record was constructed with the type "urn:nfc:wkt:" or "urn:nfc:ext:",
\* a prefix with nothing after it
BarePrefix(r) == r.type \in {WKT, EXT}

\* C17: decoding the octets that Record._encode returned for a Record never
\* raises DecodeError: the header written satisfies the decoder's conditions
\* on TYPE_LENGTH, ID_LENGTH and PAYLOAD_LENGTH
C17_EncodedIsDecodable ==
    \A i \in 1..Len(got) :
        (i <= Len(sent) /\ sent[i].rec.cls = "Record") => got[i].err # "DecodeError"

\* The same, for every type but the two bare prefixes
C17_ExceptBarePrefix ==
    \A i \in 1..Len(got) :
        (i <= Len(sent) /\ sent[i].rec.cls = "Record" /\ ~BarePrefix(sent[i].rec)) =>
            got[i].err # "DecodeError"

\* A Record of an external type with a name and a payload was encoded and
\* decoded
C17_Decoded ==
    /\ Len(got) = 1 /\ Len(sent) = 1
    /\ sent[1].rec.cls = "Record"
    /\ sent[1].rec.type = ExtFoo
    /\ sent[1].rec.name # <<>> /\ sent[1].rec.data # <<>>
    /\ got[1].err = ""

================================================================================
